---- MODULE Spec2Model ----
(***************************************************************************)
(* benchstats: the command line driver main() (parse arguments, validate   *)
(* alpha, read two sample sources, optional Bonferroni correction,         *)
(* compareStats, renderComparisonResults, exit status) as a state machine. *)
(*                                                                         *)
(* Numbers.  Python floats are modelled as exact rationals [n, d] with a   *)
(* flag for NaN, because argparse's type=float accepts the text "nan".     *)
(* Every ordering comparison with NaN is false, as in Python.              *)
(*                                                                         *)
(* compare.py and parsers.py are not among the source files; compareStats, *)
(* the method registry and the result object are modelled from the         *)
(* specification text and marked so in the model map.                      *)
(***************************************************************************)
EXTENDS Integers, Sequences, FiniteSets, TLC

VARIABLES pc, args, s1, s2, alpha, cr, cr2, main_metrics, out, status, err,
          sample_stats, stats

vars == <<pc, args, s1, s2, alpha, cr, cr2, main_metrics, out, status, err,
          sample_stats, stats>>

(***************************************************************************)
(* Bounds of the model.                                                    *)
(***************************************************************************)
\* number of observations of a full sample
MaxObs == 3
\* largest index that --main_metrics is given
MaxIdx == 1
\* longest sample_stats list
MaxStats == 2

(***************************************************************************)
(* Floats as rationals with NaN.                                           *)
(***************************************************************************)
RECURSIVE Gcd(_, _)
Gcd(a, b) == IF b = 0 THEN a ELSE Gcd(b, a % b)

Abs(x) == IF x < 0 THEN -x ELSE x

\* the float n/d (d > 0), in lowest terms
Frac(n, d) ==
    LET g == Gcd(Abs(n), d)
    IN  [nan |-> FALSE, n |-> n \div g, d |-> d \div g]

NaN == [nan |-> TRUE, n |-> 0, d |-> 1]

PyLt(x, y) == ~x.nan /\ ~y.nan /\ x.n * y.d < y.n * x.d
PyLe(x, y) == ~x.nan /\ ~y.nan /\ x.n * y.d <= y.n * x.d
PyGt(x, y) == PyLt(y, x)
PyGe(x, y) == PyLe(y, x)

\* the mathematical interval (0, 0.5]
InValidAlphaRange(a) == ~a.nan /\ a.n > 0 /\ 2 * a.n <= a.d

(***************************************************************************)
(* Names.                                                                  *)
(***************************************************************************)
Benchmarks == {"bm1", "bm2"}

\* metric names in first-seen order
MetricOrder == <<"real_time", "cpu_time">>

Metrics == {MetricOrder[i] : i \in DOMAIN MetricOrder}

Range(s) == {s[i] : i \in DOMAIN s}

(***************************************************************************)
(* Sample sets: sequences of measurements.                                 *)
(***************************************************************************)
\* n observations of the value v
Const(n, v) == [i \in 1..n |-> v]

\* n observations with mean 2: n-1 ones and the outlier n+1
Outlier(n) == [i \in 1..n |-> IF i < n THEN 1 ELSE n + 1]

Samples ==
    {<< >>, Const(1, 3), Const(MaxObs, 1), Const(MaxObs, 2), Outlier(MaxObs)}

RECURSIVE SeqSum(_)
SeqSum(s) == IF s = << >> THEN 0 ELSE Head(s) + SeqSum(Tail(s))

\* Python's a < b on the means of two non-empty samples
MeanLess(a, b) == SeqSum(a) * Len(b) < SeqSum(b) * Len(a)

(***************************************************************************)
(* Test Method Registry (compare.py, modelled from the specification): the *)
(* method ids in registry order and the two-sample test each one wraps.    *)
(* Both tests are modelled by the exact two-sided permutation distribution *)
(* of the rank-sum (Mann-Whitney U) statistic with mid-ranks for ties.     *)
(***************************************************************************)
kMethods == <<"brunnermunzel", "mannwhitneyu">>

kMethodIds == Range(kMethods)

\* twice the U statistic of the observations at positions I against those at J
U2(pool, I, J) ==
    2 * Cardinality({ij \in I \X J : pool[ij[1]] < pool[ij[2]]})
      + Cardinality({ij \in I \X J : pool[ij[1]] = pool[ij[2]]})

\* one-sided variant of the p-value
RankSumPValueOneSided(a, b) ==
    LET pool   == a \o b
        n      == Len(a)
        m      == Len(b)
        All    == 1..(n + m)
        Splits == {I \in SUBSET All : Cardinality(I) = n}
        Stat(I) == U2(pool, I, All \ I)
    IN  Frac(Cardinality({I \in Splits : Stat(I) >= Stat(1..n)}), Cardinality(Splits))

\* two-sided p-value: the share of the splits of the pooled observations whose
\* U statistic is at least as far from its centre as the observed one
RankSumPValue(a, b) ==
    LET pool   == a \o b
        n      == Len(a)
        m      == Len(b)
        All    == 1..(n + m)
        Splits == {I \in SUBSET All : Cardinality(I) = n}
        Dev(I) == Abs(U2(pool, I, All \ I) - n * m)
    IN  Frac(Cardinality({I \in Splits : Dev(I) >= Dev(1..n)}), Cardinality(Splits))

\* the p-value of every pair of samples, tabulated once (@@ makes the table an
\* explicit function)
PValueTable ==
    [ab \in Samples \X Samples |-> RankSumPValue(ab[1], ab[2])] @@ << >>

\* the routine has no value when its variance estimate is 0/0: every pooled
\* observation identical, for the test that estimates variances
TestCannotCompute(method, a, b) ==
    method = "brunnermunzel" /\ Cardinality(Range(a \o b)) <= 1

One == Frac(1, 1)

\* variant without the sample-size and failure guard
CompareOneNoGuard(a, b, method, alpha_) ==
    LET p   == PValueTable[<<a, b>>]
        res == IF PyGe(p, alpha_) THEN "~"
               ELSE IF MeanLess(a, b) THEN "<" ELSE ">"
    IN  [result |-> res, pvalue |-> p, size1 |-> Len(a), size2 |-> Len(b),
         val_set1 |-> a, val_set2 |-> b]

\* variant that reports a difference already at p = alpha
CompareOneLe(a, b, method, alpha_) ==
    LET p == PValueTable[<<a, b>>]
        untestable == Len(a) < 2 \/ Len(b) < 2 \/ TestCannotCompute(method, a, b)
        res == IF untestable \/ PyGt(p, alpha_) THEN "~"
               ELSE IF MeanLess(a, b) THEN "<" ELSE ">"
    IN  [result |-> res, pvalue |-> IF untestable THEN One ELSE p,
         size1 |-> Len(a), size2 |-> Len(b), val_set1 |-> a, val_set2 |-> b]

\* the Comparison Outcome of one (benchmark, metric) pair
CompareOne(a, b, method, alpha_) ==
    LET p == PValueTable[<<a, b>>]
        untestable == Len(a) < 2 \/ Len(b) < 2 \/ TestCannotCompute(method, a, b)
        res == IF untestable \/ PyGe(p, alpha_) THEN "~"
               ELSE IF MeanLess(a, b) THEN "<" ELSE ">"
    IN  [result |-> res, pvalue |-> IF untestable THEN One ELSE p,
         size1 |-> Len(a), size2 |-> Len(b), val_set1 |-> a, val_set2 |-> b]

\* no result object yet
NoResult ==
    [built |-> FALSE, error |-> "none", method |-> "", alpha |-> NaN,
     results |-> [b \in {} |-> [m \in {} |-> 0]], at_least_one_differs |-> FALSE]

\* main_metrics argument of compareStats: not given
NoMainMetrics == [given |-> FALSE, names |-> {}]

\* the metrics over which at_least_one_differs is computed
PrimaryOf(mm) == IF mm.given THEN mm.names ELSE Metrics

AnyDiffers(results, names) ==
    \E b \in DOMAIN results : \E m \in DOMAIN results[b] :
        m \in names /\ results[b][m].result # "~"

\* compareStats(sg1, sg2, method, alpha, main_metrics)
CompareStats(sg1, sg2, method, alpha_, mm) ==
    IF method \notin kMethodIds \/ ~InValidAlphaRange(alpha_)
    THEN [NoResult EXCEPT !.error = "ConfigurationError"]
    ELSE
    LET common  == DOMAIN sg1 \cap DOMAIN sg2
        results == [b \in common |->
                      [m \in DOMAIN sg1[b] \cap DOMAIN sg2[b] |->
                         CompareOne(sg1[b][m], sg2[b][m], method, alpha_)]]
    IN  [built |-> TRUE, error |-> "none", method |-> method, alpha |-> alpha_,
         results |-> results,
         at_least_one_differs |-> AnyDiffers(results, PrimaryOf(mm))]

\* CompareStatsResult.getMetrics(): the distinct metric names of results, in order
GetMetrics(c) ==
    SelectSeq(MetricOrder,
              LAMBDA m : \E b \in DOMAIN c.results : m \in DOMAIN c.results[b])

(***************************************************************************)
(* render.py                                                               *)
(***************************************************************************)
\* Python's None, for the optional string arguments
None == "<None>"

kAvailableFormats == <<"txt", "svg", "html">>

\* os.path.splitext(path)[1] for the file names of the model
SplitExt(path) ==
    CASE path = "r.txt"  -> ".txt"
      [] path = "r.svg"  -> ".svg"
      [] path = "r.html" -> ".html"
      [] path = "r.md"   -> ".md"
      [] OTHER           -> ""

\* ext[1:]
DropDot(ext) ==
    CASE ext = ".txt"  -> "txt"
      [] ext = ".svg"  -> "svg"
      [] ext = ".html" -> "html"
      [] ext = ".md"   -> "md"
      [] OTHER         -> ""

\* _detectExportFormat: the format, or the assertion that fails
DetectExportFormat(export_to, export_fmt) ==
    IF ~((export_to = None /\ export_fmt = None) \/ (export_to # None /\ export_to # ""))
    THEN [error |-> "AssertionError", fmt |-> None]
    ELSE IF ~(export_fmt = None \/ export_fmt \in Range(kAvailableFormats))
    THEN [error |-> "AssertionError", fmt |-> None]
    ELSE IF export_to # None /\ export_fmt = None
    THEN IF DropDot(SplitExt(export_to)) \in Range(kAvailableFormats)
         THEN [error |-> "none", fmt |-> DropDot(SplitExt(export_to))]
         ELSE [error |-> "AssertionError", fmt |-> None]
    ELSE [error |-> "none", fmt |-> export_fmt]

\* benchmark names in the iteration order of comp_res.results
BenchOrder == <<"bm1", "bm2">>

\* nothing rendered
NoOutput ==
    [error |-> "none", columns |-> << >>, rows |-> [b \in {} |-> << >>],
     fp_less |-> [m \in {} |-> 0], fp_gr |-> [m \in {} |-> 0], n_total |-> 0,
     printed |-> FALSE, summary |-> FALSE, warning |-> FALSE, saved |-> None]

\* the first error of the loop over iter_metrics for one benchmark's row:
\* results[metric_name] (KeyError) comes before cols[idx] = txt (IndexError)
RECURSIVE RowError(_, _, _, _)
RowError(results, iter_metrics, n_metrics, idx) ==
    IF idx > Len(iter_metrics) THEN "none"
    ELSE IF iter_metrics[idx] \notin DOMAIN results THEN "KeyError"
    ELSE IF idx > n_metrics THEN "IndexError"
    ELSE RowError(results, iter_metrics, n_metrics, idx + 1)

\* the first error of the loop over the benchmarks
RECURSIVE TableError(_, _, _, _)
TableError(c, iter_metrics, n_metrics, i) ==
    IF i > Len(BenchOrder) THEN "none"
    ELSE IF BenchOrder[i] \notin DOMAIN c.results
    THEN TableError(c, iter_metrics, n_metrics, i + 1)
    ELSE LET e == RowError(c.results[BenchOrder[i]], iter_metrics, n_metrics, 1)
         IN  IF e # "none" THEN e ELSE TableError(c, iter_metrics, n_metrics, i + 1)

\* the set's elements in some order
RECURSIVE SetToSeq(_)
SetToSeq(S) ==
    IF S = {} THEN << >>
    ELSE LET x == CHOOSE y \in S : TRUE IN <<x>> \o SetToSeq(S \ {x})

\* variant of the counting that takes every detected difference for the sign
CountSignAnyDifference(c, iter_metrics, m, sign) ==
    SeqSum([k \in 1..Cardinality(DOMAIN c.results) |->
              LET b == SetToSeq(DOMAIN c.results)[k]
              IN  Cardinality({i \in DOMAIN iter_metrics :
                                 /\ iter_metrics[i] = m
                                 /\ m \in DOMAIN c.results[b]
                                 /\ c.results[b][m].result # "~"})])

\* lines 296-301 over the whole loop: fp_less_metrics[m] (sign "<") or
\* fp_gr_metrics[m] (sign ">") is incremented once for every benchmark and every
\* position of iter_metrics that holds m with an outcome of that sign
CountSign(c, iter_metrics, m, sign) ==
    SeqSum([k \in 1..Cardinality(DOMAIN c.results) |->
              LET b == SetToSeq(DOMAIN c.results)[k]
              IN  Cardinality({i \in DOMAIN iter_metrics :
                                 /\ iter_metrics[i] = m
                                 /\ m \in DOMAIN c.results[b]
                                 /\ c.results[b][m].result = sign})])

\* renderComparisonResults(comp_res, export_to, export_fmt, main_metrics, expect_same);
\* main_metrics << >> stands for None or an empty list
RenderComparisonResults(c, export_to, export_fmt, mm, expect_same) ==
    LET det     == DetectExportFormat(export_to, export_fmt)
        metrics == GetMetrics(c)
        main    == IF mm = << >> THEN <<metrics[1]>> ELSE mm
        scnd    == SelectSeq(metrics, LAMBDA m : m \notin Range(main))
        iter    == main \o scnd
        loopErr == TableError(c, iter, Len(metrics), 1)
        n_total == Cardinality(DOMAIN c.results)
        table   == [NoOutput EXCEPT
                      !.columns = iter,
                      !.rows = [b \in DOMAIN c.results |->
                                  [i \in 1..Len(iter) |->
                                     [metric |-> iter[i],
                                      sign |-> c.results[b][iter[i]].result,
                                      is_main |-> i <= Len(main)]]],
                      !.fp_less = [m \in Range(iter) |-> CountSign(c, iter, m, "<")],
                      !.fp_gr = [m \in Range(iter) |-> CountSign(c, iter, m, ">")],
                      !.printed = TRUE]
    IN  IF det.error # "none" THEN [NoOutput EXCEPT !.error = det.error]
        ELSE IF mm = << >> /\ metrics = << >>
        THEN [NoOutput EXCEPT !.error = "IndexError"]
        ELSE IF mm # << >> /\ ~(\A i \in DOMAIN mm : mm[i] \in Range(metrics))
        THEN [NoOutput EXCEPT !.error = "AssertionError"]
        ELSE IF loopErr # "none" THEN [NoOutput EXCEPT !.error = loopErr]
        ELSE IF expect_same /\ n_total = 0
        THEN [table EXCEPT !.error = "ValueError"]
        ELSE [table EXCEPT !.summary = expect_same, !.n_total = n_total,
                           !.saved = det.fmt]

(***************************************************************************)
(* render.py: _sanitizeSampleStats.  A string is a sequence of characters; *)
(* an item of sample_stats is a string, a number (int or float) or a value *)
(* of another type.                                                        *)
(***************************************************************************)
\* values are how many chars should be the same to trigger match
kPossibleStatNames ==
    << [name |-> <<"e", "x", "t", "r", "e", "m", "u", "m", "s">>, chars |-> 2],
       [name |-> <<"m", "e", "d", "i", "a", "n">>, chars |-> 3],
       [name |-> <<"i", "q", "r">>, chars |-> 2],
       [name |-> <<"s", "t", "d">>, chars |-> 3] >>

kStdName == <<"s", "t", "d">>

\* _kRobustStatValues[exp_name], for the names it holds
kRobustStatValues(name) ==
    CASE name = <<"e", "x", "t", "r", "e", "m", "u", "m", "s">> -> <<Frac(0, 1), Frac(100, 1)>>
      [] name = <<"m", "e", "d", "i", "a", "n">> -> <<Frac(50, 1)>>
      [] name = <<"i", "q", "r">> -> <<Frac(25, 1), Frac(75, 1)>>

\* str.lower() of one character
Lower(ch) ==
    CASE ch = "E" -> "e" [] ch = "X" -> "x" [] ch = "M" -> "m" [] ch = "D" -> "d"
      [] ch = "I" -> "i" [] ch = "Q" -> "q" [] ch = "S" -> "s" [] ch = "T" -> "t"
      [] ch = "N" -> "n" [] ch = "A" -> "a" [] OTHER -> ch

\* variant of lower() that leaves the string as it is
LowerStrUnchanged(str) == str

\* ss.lower()
LowerStr(str) == [i \in DOMAIN str |-> Lower(str[i])]

\* the loop over kPossibleStatNames.items() from entry k on: the name of the
\* first entry that matches lower_s, << >> when none does
RECURSIVE MatchStat(_, _)
MatchStat(lower_s, k) ==
    IF k > Len(kPossibleStatNames) THEN << >>
    ELSE LET e == kPossibleStatNames[k]
         IN  IF e.chars > Len(lower_s) THEN MatchStat(lower_s, k + 1)
             ELSE IF SubSeq(e.name, 1, e.chars) = SubSeq(lower_s, 1, e.chars)
             THEN e.name
             ELSE MatchStat(lower_s, k + 1)

Digits == {"0", "1", "2", "3", "4", "5", "6", "7", "8", "9"}

DigitVal(ch) ==
    CASE ch = "0" -> 0 [] ch = "1" -> 1 [] ch = "2" -> 2 [] ch = "3" -> 3
      [] ch = "4" -> 4 [] ch = "5" -> 5 [] ch = "6" -> 6 [] ch = "7" -> 7
      [] ch = "8" -> 8 [] ch = "9" -> 9

IsDigits(str) == Len(str) > 0 /\ \A i \in DOMAIN str : str[i] \in Digits

RECURSIVE DecVal(_)
DecVal(str) ==
    IF str = << >> THEN 0
    ELSE 10 * DecVal(SubSeq(str, 1, Len(str) - 1)) + DigitVal(str[Len(str)])

\* float(ss) of a string, for the texts of the model: decimal integers with an
\* optional sign and "nan" in any case parse, every other text raises ValueError
ParseFloat(str) ==
    IF IsDigits(str) THEN [error |-> "none", val |-> Frac(DecVal(str), 1)]
    ELSE IF Len(str) > 1 /\ str[1] = "-" /\ IsDigits(Tail(str))
    THEN [error |-> "none", val |-> Frac(-DecVal(Tail(str)), 1)]
    ELSE IF LowerStr(str) = <<"n", "a", "n">> THEN [error |-> "none", val |-> NaN]
    ELSE [error |-> "ValueError", val |-> NaN]

\* items of sample_stats
StrItem(str) == [kind |-> "str", text |-> str, val |-> NaN]

NumItem(v) == [kind |-> "num", text |-> << >>, val |-> v]

\* an item that is neither int, float nor str (None, a list)
OtherItem == [kind |-> "other", text |-> << >>, val |-> NaN]

\* float(ss) of any item that passed the isinstance assertion
ToFloat(ss) == IF ss.kind = "str" THEN ParseFloat(ss.text) ELSE [error |-> "none", val |-> ss.val]

\* one pass of the loop body (lines 95-114) on the accumulator
\* [error, use_std, perc]
SanitizeStep(acc, ss) ==
    IF ss.kind = "other" THEN [acc EXCEPT !.error = "AssertionError"]
    ELSE LET exp_name == IF ss.kind = "str" THEN MatchStat(LowerStr(ss.text), 1) ELSE << >>
             fv == ToFloat(ss)
         IN  IF exp_name = kStdName THEN [acc EXCEPT !.use_std = TRUE]
             ELSE IF exp_name # << >>
             THEN [acc EXCEPT !.perc = @ \o kRobustStatValues(exp_name)]
             ELSE IF fv.error # "none" THEN [acc EXCEPT !.error = fv.error]
             ELSE IF ~(PyLe(Frac(0, 1), fv.val) /\ PyLe(fv.val, Frac(100, 1)))
             THEN [acc EXCEPT !.error = "AssertionError"]
             ELSE [acc EXCEPT !.perc = Append(@, fv.val)]

\* the loop of lines 94-114; it stops at the first error
RECURSIVE SanitizeLoop(_, _)
SanitizeLoop(acc, items) ==
    IF items = << >> \/ acc.error # "none" THEN acc
    ELSE SanitizeLoop(SanitizeStep(acc, Head(items)), Tail(items))

\* sorted(...) of a set of floats: ascending
RECURSIVE Sorted(_)
Sorted(S) ==
    IF S = {} THEN << >>
    ELSE LET lo == CHOOSE x \in S : \A y \in S : PyLe(x, y)
         IN  <<lo>> \o Sorted(S \ {lo})

\* the sample_stats argument: None, or an iterable of items
NoSampleStats == [is_none |-> TRUE, items |-> << >>]

SampleStatsOf(items) == [is_none |-> FALSE, items |-> items]

\* what _sanitizeSampleStats has not returned yet
NoStats ==
    [called |-> FALSE, error |-> "none", is_none |-> FALSE, percentiles |-> << >>,
     std |-> FALSE]

\* _sanitizeSampleStats(sample_stats, perc_fmt): the first element of the
\* returned pair (is_none: the pair is (None, None)), or the exception
SanitizeSampleStats(sample_stats_) ==
    IF sample_stats_.is_none THEN [NoStats EXCEPT !.called = TRUE, !.is_none = TRUE]
    ELSE LET acc == SanitizeLoop([error |-> "none", use_std |-> FALSE, perc |-> << >>],
                                 sample_stats_.items)
         IN  IF acc.error # "none"
             THEN [NoStats EXCEPT !.called = TRUE, !.error = acc.error]
             ELSE IF ~acc.use_std /\ Len(acc.perc) < 1
             THEN [NoStats EXCEPT !.called = TRUE, !.is_none = TRUE]
             ELSE [NoStats EXCEPT !.called = TRUE,
                                  !.percentiles = Sorted(Range(acc.perc)),
                                  !.std = acc.use_std]

(***************************************************************************)
(* Inputs: command lines and sample sources.                               *)
(***************************************************************************)
\* --alpha texts that float() accepts: nan, 0, 0.6, 0.2, 0.5
AlphaChoices == {NaN, Frac(0, 1), Frac(3, 5), Frac(1, 5), Frac(1, 2)}

\* --method texts: the registered ids and one that is not registered
MethodChoices == kMethodIds \cup {"ttest"}

\* positional metrics as typed (<< >>: none typed)
MetricsChoices == {<< >>, <<"real_time", "cpu_time">>}

\* --main_metrics as typed (<< >>: option absent), at most two indexes
MainMetricsChoices ==
    {<< >>} \cup {<<i>> : i \in 0..MaxIdx} \cup {<<i, j>> : i, j \in 0..MaxIdx}

\* --export_to and --export_fmt
ExportChoices ==
    {<<None, None>>, <<"r.svg", None>>, <<"r.md", None>>, <<None, "txt">>,
     <<"r.html", "txt">>}

\* one benchmark of a source: metric -> sample
Row1(x) == [m \in {"real_time"} |-> x]

Row2(x, y) == [m \in Metrics |-> IF m = "real_time" THEN x ELSE y]

Rows ==
    {Row1(Const(MaxObs, 1)),
     Row2(Const(MaxObs, 2), Const(MaxObs, 2)),
     Row2(Const(MaxObs, 2), Const(MaxObs, 1)),
     Row2(Outlier(MaxObs), << >>)}

\* the rows of the second benchmark
Rows2 ==
    {Row2(Const(MaxObs, 1), Const(1, 3)), Row2(Const(MaxObs, 2), Const(MaxObs, 2))}

RowsOf(b) == IF b = "bm1" THEN Rows ELSE Rows2

\* the Sample Mappings a parser's getStats() returns
Sources ==
    UNION {{f \in [B -> Rows \cup Rows2] : \A b \in B : f[b] \in RowsOf(b)} : B \in SUBSET Benchmarks}

(***************************************************************************)
(* cli_parser.py: makeParser().parse_args()                                *)
(***************************************************************************)
NoArgs ==
    [alpha |-> NaN, method |-> "", metrics |-> << >>, main_metrics |-> << >>,
     bonferroni |-> FALSE, expect_same |-> FALSE, export_to |-> None,
     export_fmt |-> None]

\* the namespace argparse builds: defaults for what was not typed
ParsedArgs(a, meth, mets, mm, bonf, same, exp) ==
    [alpha |-> a, method |-> meth,
     metrics |-> IF mets = << >> THEN <<"real_time">> ELSE mets,
     main_metrics |-> IF mm = << >> THEN <<0>> ELSE mm,
     bonferroni |-> bonf, expect_same |-> same,
     export_to |-> exp[1], export_fmt |-> exp[2]]

\* argparse rejects the command line (choices=kMethods.keys(), choices=kAvailableFormats)
ArgparseRejects(meth, exp) ==
    meth \notin kMethodIds \/ (exp[2] # None /\ exp[2] \notin Range(kAvailableFormats))

(***************************************************************************)
(* __main__.py: main()                                                     *)
(***************************************************************************)
Half == Frac(1, 2)

Zero == Frac(0, 1)

\* args.alpha > 0.5 or args.alpha <= 0
AlphaRejected(a) == PyGt(a, Half) \/ PyLe(a, Zero)

\* alpha / len(s1) for len(s1) > 0
PyDiv(a, k) == IF a.nan THEN NaN ELSE Frac(a.n, a.d * k)

\* args.metrics[mi]: Python indexing, negative indexes count from the end
IndexOk(seq, mi) == -Len(seq) <= mi /\ mi < Len(seq)

PyIndex(seq, mi) == IF mi >= 0 THEN seq[mi + 1] ELSE seq[Len(seq) + mi + 1]

Init ==
    /\ pc = "start"
    /\ args = NoArgs
    /\ s1 = [b \in {} |-> [m \in {} |-> << >>]]
    /\ s2 = [b \in {} |-> [m \in {} |-> << >>]]
    /\ alpha = NaN
    /\ cr = NoResult
    /\ cr2 = NoResult
    /\ main_metrics = << >>
    /\ out = NoOutput
    /\ status = -1
    /\ err = "none"
    /\ sample_stats = NoSampleStats
    /\ stats = NoStats

\* lines 19-20: parser.parse_args(); argparse exits with status 2 on a bad choice
ParseArgs ==
    /\ pc = "start"
    /\ \E a \in AlphaChoices, meth \in MethodChoices, mets \in MetricsChoices,
          mm \in MainMetricsChoices, bonf \in BOOLEAN, same \in BOOLEAN,
          exp \in ExportChoices :
          IF ArgparseRejects(meth, exp)
          THEN /\ pc' = "done"
               /\ status' = 2
               /\ UNCHANGED args
          ELSE /\ pc' = "check_alpha"
               /\ args' = ParsedArgs(a, meth, mets, mm, bonf, same, exp)
               /\ UNCHANGED status
    /\ UNCHANGED <<s1, s2, alpha, cr, cr2, main_metrics, out, err>>
    /\ UNCHANGED <<sample_stats, stats>>

\* lines 25-30
CheckAlpha ==
    /\ pc = "check_alpha"
    /\ IF AlphaRejected(args.alpha)
       THEN pc' = "done" /\ status' = 2
       ELSE pc' = "get_stats" /\ UNCHANGED status
    /\ UNCHANGED <<args, s1, s2, alpha, cr, cr2, main_metrics, out, err>>
    /\ UNCHANGED <<sample_stats, stats>>

\* Parser(file, filter, metrics).getStats(): the requested metrics of the
\* benchmarks of the file
GetStatsOf(file, metrics) ==
    [b \in DOMAIN file |->
       [m \in DOMAIN file[b] \cap Range(metrics) |-> file[b][m]]]

\* lines 32-36: both parsers read their file
GetStats ==
    /\ pc = "get_stats"
    /\ \E f1 \in Sources, f2 \in Sources :
          /\ s1' = GetStatsOf(f1, args.metrics)
          /\ s2' = GetStatsOf(f2, args.metrics)
    /\ pc' = "compare"
    /\ UNCHANGED <<args, alpha, cr, cr2, main_metrics, out, status, err>>
    /\ UNCHANGED <<sample_stats, stats>>

\* variant of the call that passes source 1 twice
CallCompareStatsSameSource(a) == CompareStats(s1, s1, args.method, a, NoMainMetrics)

\* variant of the call that passes the uncorrected --alpha
CallCompareStatsUncorrected(a) ==
    CompareStats(s1, s2, args.method, args.alpha, NoMainMetrics)

\* line 46 as called by main: the corrected alpha, no main_metrics
CallCompareStats(a) == CompareStats(s1, s2, args.method, a, NoMainMetrics)

\* lines 38-46: Bonferroni correction and compareStats; an exception that main
\* does not catch ends the process with a traceback and status 1
Compare ==
    /\ pc = "compare"
    /\ IF args.bonferroni /\ Cardinality(DOMAIN s1) = 0
       THEN /\ pc' = "done" /\ status' = 1 /\ err' = "ZeroDivisionError"
            /\ alpha' = args.alpha
            /\ UNCHANGED cr
       ELSE LET a == IF args.bonferroni
                     THEN PyDiv(args.alpha, Cardinality(DOMAIN s1))
                     ELSE args.alpha
                c == CallCompareStats(a)
            IN  /\ alpha' = a
                /\ IF c.error # "none"
                   THEN /\ pc' = "done" /\ status' = 1 /\ err' = c.error
                        /\ UNCHANGED cr
                   ELSE /\ pc' = "render" /\ cr' = c
                        /\ UNCHANGED <<status, err>>
    /\ UNCHANGED <<args, s1, s2, cr2, main_metrics, out>>
    /\ UNCHANGED <<sample_stats, stats>>

\* lines 50-65: the names of the main metrics, then renderComparisonResults,
\* which main calls without sample_stats
SelectAndRender ==
    /\ pc = "render"
    /\ IF \A i \in DOMAIN args.main_metrics : IndexOk(args.metrics, args.main_metrics[i])
       THEN LET mm == IF Len(args.main_metrics) < 1
                      THEN <<args.metrics[1]>>
                      ELSE [i \in DOMAIN args.main_metrics |->
                              PyIndex(args.metrics, args.main_metrics[i])]
                o  == RenderComparisonResults(cr, args.export_to, args.export_fmt,
                                              mm, args.expect_same)
            IN  /\ main_metrics' = mm
                /\ stats' = SanitizeSampleStats(sample_stats)
                /\ out' = o
                /\ IF o.error # "none"
                   THEN pc' = "done" /\ status' = 1 /\ err' = o.error
                   ELSE pc' = "exit" /\ UNCHANGED <<status, err>>
       ELSE /\ pc' = "done" /\ status' = 1 /\ err' = "IndexError"
            /\ UNCHANGED <<main_metrics, out, stats>>
    /\ UNCHANGED <<args, s1, s2, alpha, cr, cr2, sample_stats>>

\* lines 67-72, and the normal return of main
Exit ==
    /\ pc = "exit"
    /\ status' = IF cr.at_least_one_differs THEN 1 ELSE 0
    /\ pc' = "done"
    /\ UNCHANGED <<args, s1, s2, alpha, cr, cr2, main_metrics, out, err>>
    /\ UNCHANGED <<sample_stats, stats>>

Next ==
    \/ ParseArgs
    \/ CheckAlpha
    \/ GetStats
    \/ Compare
    \/ SelectAndRender
    \/ Exit

Spec == Init /\ [][Next]_vars

(***************************************************************************)
(* The comparison engine on its own: compareStats applied to two Sample    *)
(* Mappings in both orders, for every registered method and valid alpha.   *)
(***************************************************************************)
EngineAlphas == {Frac(1, 10), Frac(1, 5), Frac(1, 2)}

InitCompare ==
    /\ pc = "engine"
    /\ \E meth \in kMethodIds : args = [NoArgs EXCEPT !.method = meth]
    /\ s1 \in Sources
    /\ s2 \in Sources
    /\ alpha \in EngineAlphas
    /\ cr = NoResult
    /\ cr2 = NoResult
    /\ main_metrics = << >>
    /\ out = NoOutput
    /\ status = -1
    /\ err = "none"
    /\ sample_stats = NoSampleStats
    /\ stats = NoStats

\* compareStats(s1, s2, method, alpha)
CompareForward ==
    /\ pc = "engine"
    /\ cr' = CompareStats(s1, s2, args.method, alpha, NoMainMetrics)
    /\ pc' = "engine_swap"
    /\ UNCHANGED <<args, s1, s2, alpha, cr2, main_metrics, out, status, err>>
    /\ UNCHANGED <<sample_stats, stats>>

\* compareStats(s2, s1, method, alpha)
CompareSwapped ==
    /\ pc = "engine_swap"
    /\ cr2' = CompareStats(s2, s1, args.method, alpha, NoMainMetrics)
    /\ pc' = "engine_done"
    /\ UNCHANGED <<args, s1, s2, alpha, cr, main_metrics, out, status, err>>
    /\ UNCHANGED <<sample_stats, stats>>

NextCompare == CompareForward \/ CompareSwapped

SpecCompare == InitCompare /\ [][NextCompare]_vars

(***************************************************************************)
(* _sanitizeSampleStats on its own: applied to None and to every list of   *)
(* at most MaxStats items.                                                 *)
(***************************************************************************)
\* strings given as items
StatTexts ==
    { <<"e", "x">>, <<"E", "X">>, <<"e">>, <<"e", "x", "x">>,
      <<"m", "e", "d">>, <<"m", "e">>, <<"M", "e", "d", "x">>,
      <<"i", "q">>, <<"I", "q", "r">>, <<"i">>,
      <<"s", "t", "d">>, <<"s", "t">>, <<"S", "T", "D">>,
      <<"x", "e">>, << >>,
      <<"0">>, <<"5", "0">>, <<"1", "0", "0">>, <<"1", "0", "1">>, <<"-", "1">>,
      <<"n", "a", "n">> }

\* numbers given as items
StatNumbers ==
    {Frac(-1, 1), Frac(0, 1), Frac(5, 2), Frac(25, 1), Frac(50, 1), Frac(100, 1),
     Frac(101, 1), NaN}

StatItems ==
    {StrItem(t) : t \in StatTexts} \cup {NumItem(v) : v \in StatNumbers} \cup {OtherItem}

StatLists == UNION {[1..n -> StatItems] : n \in 0..MaxStats}

InitStats ==
    /\ pc = "stats"
    /\ sample_stats \in {NoSampleStats} \cup {SampleStatsOf(l) : l \in StatLists}
    /\ stats = NoStats
    /\ args = NoArgs
    /\ s1 = [b \in {} |-> [m \in {} |-> << >>]]
    /\ s2 = [b \in {} |-> [m \in {} |-> << >>]]
    /\ alpha = NaN
    /\ cr = NoResult
    /\ cr2 = NoResult
    /\ main_metrics = << >>
    /\ out = NoOutput
    /\ status = -1
    /\ err = "none"

\* _sanitizeSampleStats(sample_stats, perc_fmt)
Sanitize ==
    /\ pc = "stats"
    /\ stats' = SanitizeSampleStats(sample_stats)
    /\ pc' = "stats_done"
    /\ UNCHANGED <<args, s1, s2, alpha, cr, cr2, main_metrics, out, status, err,
                   sample_stats>>

NextStats == Sanitize

SpecStats == InitStats /\ [][NextStats]_vars

(***************************************************************************)
(* Properties.                                                             *)
(***************************************************************************)
\* the configuration main() received is valid
ValidConfig == args.method \in kMethodIds /\ InValidAlphaRange(args.alpha)

\* the (benchmark, metric) pairs present in both sources
CommonPairs ==
    {bm \in (DOMAIN s1 \cap DOMAIN s2) \X Metrics :
        bm[2] \in DOMAIN s1[bm[1]] \cap DOMAIN s2[bm[1]]}

\* the (benchmark, metric) keys of a result
ResultPairs(c) ==
    {bm \in (DOMAIN c.results) \X Metrics : bm[2] \in DOMAIN c.results[bm[1]]}

Outcome(c, bm) == c.results[bm[1]][bm[2]]

MeansTie(o) ==
    ~MeanLess(o.val_set1, o.val_set2) /\ ~MeanLess(o.val_set2, o.val_set1)

Flip(r) == IF r = "<" THEN ">" ELSE IF r = ">" THEN "<" ELSE "~"

\* C1: an invalid configuration (alpha outside (0, 0.5] or an unregistered method
\* id) ends the process with exit status 2 before any source is parsed and before
\* any comparison runs, and a valid configuration is never rejected with status 2.
C1_InvalidConfigExitsWith2 ==
    /\ (pc \notin {"start", "check_alpha"} /\ ~ValidConfig)
          => (pc = "done" /\ status = 2 /\ ~cr.built
              /\ DOMAIN s1 = {} /\ DOMAIN s2 = {})
    /\ ValidConfig => status # 2

SharesBenchmark ==
    \E b \in DOMAIN s1 \cap DOMAIN s2 :
        Range(args.metrics) \subseteq DOMAIN s1[b] \cap DOMAIN s2[b]

\* C3: for an accepted command line with a valid alpha and sources that share a
\* benchmark with the requested metrics, main() ends without an uncaught error,
\* with the report printed, and with status 0 when no primary metric differs.
C3_RunsToCompletion ==
    (pc = "done" /\ ValidConfig /\ SharesBenchmark)
        => /\ err = "none"
           /\ out.printed
           /\ ~AnyDiffers(cr.results, Range(main_metrics)) => status = 0

\* C4: in every Comparison Result each direction is one of "<", ">", "~"; a
\* direction other than "~" has p_value < alpha strictly; "~" from a completed
\* test (both samples with at least 2 observations) has p_value >= alpha.
C4_DirectionAgreesWithPValue ==
    cr.built =>
        \A bm \in ResultPairs(cr) :
            LET o == Outcome(cr, bm)
            IN  /\ o.result \in {"<", ">", "~"}
                /\ o.result # "~" => PyLt(o.pvalue, cr.alpha)
                /\ (o.result = "~" /\ o.size1 >= 2 /\ o.size2 >= 2)
                      => PyGe(o.pvalue, cr.alpha)

\* a result with a detected difference and with a completed test that found none
C4_Witness ==
    /\ cr.built
    /\ \E bm \in ResultPairs(cr) : Outcome(cr, bm).result # "~"
    /\ \E bm \in ResultPairs(cr) :
          LET o == Outcome(cr, bm)
          IN  o.result = "~" /\ o.size1 >= 2 /\ o.size2 >= 2 /\ o.pvalue # One

\* the pair cannot be tested: a side with fewer than 2 observations, or a test
\* that cannot produce a value
Untestable(bm) ==
    \/ Len(s1[bm[1]][bm[2]]) < 2
    \/ Len(s2[bm[1]][bm[2]]) < 2
    \/ TestCannotCompute(args.method, s1[bm[1]][bm[2]], s2[bm[1]][bm[2]])

\* C5: compareStats returns a result for every pair of well-formed Sample
\* Mappings; each pair with fewer than 2 observations on a side, or whose test has
\* no value, is "~" with p_value 1.0, and every other common pair is in the result.
C5_DegeneratePairsAreSame ==
    pc # "engine" =>
        /\ cr.built
        /\ cr.error = "none"
        /\ ResultPairs(cr) = CommonPairs
        /\ \A bm \in CommonPairs :
              Untestable(bm) =>
                  Outcome(cr, bm).result = "~" /\ Outcome(cr, bm).pvalue = One

\* one call with an empty sample, a single observation, a test without a value,
\* and a pair that was compared and differs
C5_Witness ==
    /\ pc = "engine_done"
    /\ \E bm \in CommonPairs : Len(s1[bm[1]][bm[2]]) = 0
    /\ \E bm \in CommonPairs : Len(s2[bm[1]][bm[2]]) = 1
    /\ \E bm \in CommonPairs :
          /\ Len(s1[bm[1]][bm[2]]) >= 2
          /\ Len(s2[bm[1]][bm[2]]) >= 2
          /\ TestCannotCompute(args.method, s1[bm[1]][bm[2]], s2[bm[1]][bm[2]])
    /\ \E bm \in ResultPairs(cr) : Outcome(cr, bm).result # "~"

\* C6: every (benchmark, metric) key of the result is a benchmark present in both
\* mappings and a metric present on both sides for it; a benchmark or metric on one
\* side only never appears and never makes the comparison fail.
C6_ResultKeysWithinIntersection ==
    /\ cr.built => ResultPairs(cr) \subseteq CommonPairs
    /\ cr.built => DOMAIN cr.results \subseteq DOMAIN s1 \cap DOMAIN s2
    /\ err = "ConfigurationError" => ~InValidAlphaRange(alpha)

\* a comparison of sources where a benchmark is in source 1 only and a metric of
\* a common benchmark is on one side only
C6_Witness ==
    /\ cr.built
    /\ DOMAIN cr.results # {}
    /\ DOMAIN s1 \ DOMAIN s2 # {}
    /\ \E b \in DOMAIN s1 \cap DOMAIN s2 : DOMAIN s1[b] # DOMAIN s2[b]

\* the comparisons made on primary metrics
PrimaryTests == {bm \in CommonPairs : bm[2] \in Range(main_metrics)}

\* C7: with --bonferroni the alpha passed to the comparison is the CLI alpha
\* divided by the number of (benchmark, primary metric) pairs present in both
\* sources; the divisor is never 0 and the corrected alpha stays in (0, 0.5].
C7_BonferroniDividesByPrimaryTests ==
    /\ (ValidConfig /\ args.bonferroni) => err # "ZeroDivisionError"
    /\ (pc = "exit" /\ args.bonferroni) =>
          /\ Cardinality(PrimaryTests) > 0
          /\ cr.alpha = PyDiv(args.alpha, Cardinality(PrimaryTests))
          /\ InValidAlphaRange(cr.alpha)

C10_EmptyResultGivesWarning ==
    (pc = "done" /\ cr.built /\ DOMAIN cr.results = {} /\ main_metrics # << >>)
        => (err = "none" /\ out.warning /\ ~out.printed)

\* the report was rendered by a run of main() that raised nothing
Rendered == pc \in {"exit", "done"} /\ out.printed /\ out.error = "none"

\* renderComparisonResults was called (main chose the names of the main metrics)
RenderCalled == pc \in {"exit", "done"} /\ cr.built /\ main_metrics # << >>

\* C11: the export format is --export_fmt when set, otherwise the extension of
\* the --export_to file; for every accepted combination of the two options no
\* assertion of the format detection fails, and the report is saved iff
\* --export_to is given, then in one of txt, svg, html.
C11_ExportSavesIffExportTo ==
    /\ RenderCalled => DetectExportFormat(args.export_to, args.export_fmt).error = "none"
    /\ Rendered =>
          /\ (out.saved # None) <=> (args.export_to # None)
          /\ out.saved # None => out.saved \in Range(kAvailableFormats)
          /\ args.export_fmt # None => out.saved = args.export_fmt
          /\ (args.export_fmt = None /\ args.export_to # None)
                => out.saved = DropDot(SplitExt(args.export_to))

\* the sequence lists no element twice
NoDuplicates(seq) == \A i, j \in DOMAIN seq : seq[i] = seq[j] => i = j

\* renderComparisonResults was called with an accepted export pair and with
\* main_metrics that are all metrics of getMetrics()
RenderAccepted ==
    /\ RenderCalled
    /\ DetectExportFormat(args.export_to, args.export_fmt).error = "none"
    /\ Range(main_metrics) \subseteq Range(GetMetrics(cr))

\* C12: for main_metrics that renderComparisonResults accepts, the table has
\* exactly one column per distinct metric of getMetrics(), main metrics first,
\* and every benchmark of results has one row with a cell in every column; also
\* when main_metrics repeats a metric and when benchmarks have different metrics.
C12_OneColumnPerMetricAllCellsFilled ==
    RenderAccepted =>
        /\ out.error = "none"
        /\ out.printed
        /\ NoDuplicates(out.columns)
        /\ Range(out.columns) = Range(GetMetrics(cr))
        /\ \A i \in DOMAIN out.columns :
              (out.columns[i] \in Range(main_metrics))
                 <=> (i <= Cardinality(Range(main_metrics)))
        /\ DOMAIN out.rows = DOMAIN cr.results
        /\ \A b \in DOMAIN out.rows :
              /\ Len(out.rows[b]) = Len(out.columns)
              /\ \A i \in DOMAIN out.columns :
                    /\ out.rows[b][i].metric = out.columns[i]
                    /\ out.rows[b][i].sign \in {"<", ">", "~"}

\* the benchmarks of the result whose outcome for metric m is in signs
WithOutcome(m, signs) ==
    {b \in DOMAIN cr.results :
        m \in DOMAIN cr.results[b] /\ cr.results[b][m].result \in signs}

KnownStats(item) ==
    IF item.kind # "str" THEN {}
    ELSE {k \in DOMAIN kPossibleStatNames :
            LET e == kPossibleStatNames[k]
            IN  /\ Len(item.text) >= e.chars
                /\ \A i \in 1..e.chars : Lower(item.text[i]) = Lower(e.name[i])}

\* the item is a number (given as such or written as text) within [0, 100]
NumberInRange(item) ==
    LET fv == ToFloat(item)
    IN  /\ item.kind # "other"
        /\ fv.error = "none"
        /\ ~fv.val.nan
        /\ 0 <= fv.val.n
        /\ fv.val.n <= 100 * fv.val.d

\* the percentiles an accepted item asks for
RequestedPercentiles(item) ==
    IF KnownStats(item) = {} THEN {ToFloat(item).val}
    ELSE UNION {IF kPossibleStatNames[k].name = kStdName THEN {}
                ELSE Range(kRobustStatValues(kPossibleStatNames[k].name)) :
                k \in KnownStats(item)}

RequestsStd(item) == \E k \in KnownStats(item) : kPossibleStatNames[k].name = kStdName

\* C14: _sanitizeSampleStats takes a string for a known statistic iff the string
\* has at least that statistic's number of characters (2, 3, 2, 3) and these
\* agree case-insensitively with the statistic's name; every other item must be
\* a number in [0, 100] (a number, or text that float() reads as one) or the call
\* fails; the returned percentiles are strictly ascending, without duplicates and
\* within [0, 100]; the result is (None, None) exactly when no percentile and no
\* std was requested.
C14_SanitizeSampleStats ==
    pc = "stats_done" =>
        LET items == sample_stats.items
            perc  == UNION {RequestedPercentiles(items[i]) : i \in DOMAIN items}
            std   == \E i \in DOMAIN items : RequestsStd(items[i])
            p     == stats.percentiles
        IN  /\ stats.called
            /\ (stats.error = "none")
                  <=> \A i \in DOMAIN items :
                         KnownStats(items[i]) # {} \/ NumberInRange(items[i])
            /\ stats.error = "none" =>
                  /\ stats.is_none <=> (perc = {} /\ ~std)
                  /\ ~stats.is_none =>
                        /\ Range(p) = perc
                        /\ stats.std = std
                        /\ \A i \in 1..(Len(p) - 1) : PyLt(p[i], p[i + 1])
                        /\ \A i \in DOMAIN p :
                              PyLe(Frac(0, 1), p[i]) /\ PyLe(p[i], Frac(100, 1))

\* a list with a statistic name written in upper case, std requested, and a
\* result of several percentiles
C14_Witness ==
    /\ pc = "stats_done"
    /\ stats.error = "none"
    /\ stats.std
    /\ Len(stats.percentiles) >= 2
    /\ \E i \in DOMAIN sample_stats.items :
          LET it == sample_stats.items[i]
          IN  it.kind = "str" /\ LowerStr(it.text) # it.text /\ KnownStats(it) # {}

====
